---- MODULE Spec2Model ----
(***************************************************************************)
(* Model of LanguageLearningBot (src/Script.py): one execution of run()    *)
(* against the sqlite database, the external model and the terminal.       *)
(* The external model, the storage engine and the user are the             *)
(* environment: every payload, failure and interrupt they can produce is   *)
(* a nondeterministic choice.                                              *)
(***************************************************************************)
EXTENDS Integers, Sequences, FiniteSets, TLC

\* Bound of the model: the largest number of mistake entries the external
\* model returns that the in-memory list still has room for.
MaxStore == 3

----------------------------------------------------------------------------
\* Values

None == "None"
NULL == 0

AllKeys == {"incorrect", "correction", "type", "importance"}

\* One element of the "mistakes" array of an analysis payload, as json.loads
\* returns it: a dict with some of the keys; "importance" is a JSON number
\* (impKind "int") or a JSON string (impKind "str").
Entry(keys, incorrect, correction, type, impKind, importance) ==
    [keys |-> keys, incorrect |-> incorrect, correction |-> correction,
     type |-> type, impKind |-> impKind, importance |-> importance]

Entries ==
    { Entry(AllKeys, "yo es", "yo soy", "grammar", "int", 1),
      Entry(AllKeys, "la problema", "el problema", "vocabulary", "int", 2),
      Entry(AllKeys, "mas mejor", "mejor", "grammar", "int", 2),
      Entry(AllKeys, "yo sabo", "yo se", "grammar", "int", 3),
      Entry(AllKeys, "estoy caliente", "tengo calor", "idiom", "int", 4),
      Entry(AllKeys, "el agua fria", "el agua fria", "structure", "str", 0),
      Entry(AllKeys \ {"importance"}, "soy bien", "estoy bien", "grammar", "int", 0),
      Entry(AllKeys \ {"correction"}, "en el lunes", "", "grammar", "int", 3),
      Entry(AllKeys \ {"type"}, "un otro", "otro", "", "int", 2) }

\* A parsed JSON document: an object (dict) or an array (list).  An object
\* may lack the "mistakes" key, or hold null instead of a list there.
Doc(shape, hasMistakes, mistakesIsList, ms, quality, strengths, areas) ==
    [shape |-> shape, hasMistakes |-> hasMistakes, mistakesIsList |-> mistakesIsList,
     mistakes |-> ms, overall_quality |-> quality, strengths |-> strengths,
     improvement_areas |-> areas]

ObjectDoc(ms) == Doc("object", TRUE, TRUE, ms, 4, <<"vocabulary">>, <<"articles">>)

SeqsUpTo(S, n) == UNION { [1..k -> S] : k \in 0..n }

\* The documents the external model can return with at most n mistake entries.
Docs(n) ==
    { ObjectDoc(ms) : ms \in SeqsUpTo(Entries, n) }
    \cup { Doc("array", FALSE, FALSE, <<>>, 0, <<>>, <<>>),
           Doc("object", FALSE, FALSE, <<>>, 4, <<>>, <<>>),
           Doc("object", TRUE, FALSE, <<>>, 4, <<>>, <<>>) }

\* A response body: text that json.loads accepts (valid) and the document it
\* denotes, or text it rejects (a document cut short).
Bodies(n) ==
    { [valid |-> TRUE, doc |-> d] : d \in Docs(n) }
    \cup { [valid |-> FALSE, doc |-> ObjectDoc(<<>>)] }
    \cup { [valid |-> FALSE, doc |-> ObjectDoc(<<e>>)] : e \in {x \in Entries : x.importance = 3 /\ x.keys = AllKeys} }

NoAnalysis == Doc("none", FALSE, FALSE, <<>>, 0, <<>>, <<>>)

EmptyAnalysis == Doc("object", TRUE, TRUE, <<>>, 3, <<>>, <<>>)

\* A fallback that keeps what was readable of the rejected text.
AnalysisOf_partial(body) == body.doc

\* analyze_user_response, lines 295-300: the parsed document, or the empty
\* Analysis Result when json.loads raises.
AnalysisOf(body) == IF body.valid THEN body.doc ELSE EmptyAnalysis

----------------------------------------------------------------------------
\* Catalogs (class attributes and get_available_languages)

Languages ==
    << "Spanish", "French", "German", "Italian", "Portuguese",
       "Russian", "Japanese", "Chinese", "Korean", "Arabic",
       "Hindi", "Dutch", "Swedish", "Turkish", "Polish" >>

LEVELS == << "beginner", "intermediate", "advanced" >>

SCENES ==
    << "restaurant", "hotel", "shopping", "airport", "doctor",
       "job_interview", "making_friends", "public_transport" >>

\* What the user types at a numbered menu: int(input()) gives n, or raises
\* ValueError when the text is not a number.
Typed(numeric, n) == [numeric |-> numeric, n |-> n]

LanguageInputs == { Typed(FALSE, 0), Typed(TRUE, 0), Typed(TRUE, 15), Typed(TRUE, 16) }
LevelInputs == { Typed(FALSE, 0), Typed(TRUE, 0), Typed(TRUE, 2), Typed(TRUE, 4) }
SceneInputs == { Typed(FALSE, 0), Typed(TRUE, 0), Typed(TRUE, 8), Typed(TRUE, 9) }

\* The menu loops: a number within 1..len(catalog) selects, anything else
\* prompts again.
Selects(typed, catalog) == typed.numeric /\ 1 <= typed.n /\ typed.n <= Len(catalog)

NativeInputs == { " English ", "English" }

\* str.strip() on the native-language answer.
Strip(text) == IF text = " English " THEN "English" ELSE text

\* What the user types at the "> " prompt, and str.lower() of it.
TurnInputs == { "EXIT", "quit", "Bye", "Hola, una mesa" }

Lower(text) ==
    CASE text = "EXIT" -> "exit"
      [] text = "Bye" -> "bye"
      [] text = "Hola, una mesa" -> "hola, una mesa"
      [] OTHER -> text

IsExitCommand(user_input) == Lower(user_input) \in {"exit", "quit", "bye"}

GreatJob == "Great job! You didn't make any significant mistakes in this conversation."

----------------------------------------------------------------------------
\* State

VARIABLES
    pc,                 \* position of run()
    error,              \* the exception that ended the process, or None
    errorAt,            \* the position it was raised at
    user_id, target_language, native_language, proficiency_level,
    selected_scene, session_id,
    mistakes,           \* self.mistakes
    users,              \* number of rows of table users (ids 1..users)
    sessions,           \* rows of table sessions, by id
    dbMistakes,         \* rows of table mistakes, by id
    now,                \* CURRENT_TIMESTAMP of the next commit
    analysis,           \* the Analysis Result of the current turn
    idx,                \* position of the for loop of prepare_chat_response
    correction_text,    \* its correction_text, a sequence of annotations
    prompt,             \* the corrections placed in the reply prompt
    composed,           \* the reply prompt of the current turn has been built
    turnStartLen,       \* Len(mistakes) when the current turn began
    parseFailed,        \* json.loads raised in the current turn
    feedbackCalls,      \* external-model calls made by generate_session_feedback
    feedback,           \* its return value
    mistake_types,      \* the counts by type it forwards
    important_mistakes, \* the high-importance aggregate it forwards
    printedTop          \* the rows printed under "Top Mistakes to Focus On"

ctl == << pc, error, errorAt >>
session == << user_id, target_language, native_language, proficiency_level,
              selected_scene, session_id >>
db == << users, sessions, dbMistakes, now >>
turn == << analysis, idx, correction_text, prompt, composed, turnStartLen, parseFailed >>
report == << feedbackCalls, feedback, mistake_types, important_mistakes, printedTop >>
vars == << ctl, session, mistakes, db, turn, report >>

\* A database file as an earlier run left it: a fresh file, or one holding a
\* closed session with one mistake.
EmptyDb == [users |-> 0, sessions |-> <<>>, mistakes |-> <<>>, now |-> 1]

UsedDb ==
    [users |-> 1,
     sessions |-> << [id |-> 1, user_id |-> 1, target_language |-> "French",
                      native_language |-> "English", proficiency_level |-> "beginner",
                      scene |-> "hotel", start_time |-> 2, end_time |-> 4] >>,
     mistakes |-> << [id |-> 1, session_id |-> 1, mistake_text |-> "je suis faim",
                      correction |-> "j'ai faim", mistake_type |-> "idiom",
                      importance |-> 2] >>,
     now |-> 5]

NoCounts == [t \in {} |-> 0]

Init ==
    /\ pc = "create_user"
    /\ error = None
    /\ errorAt = None
    /\ user_id = NULL
    /\ target_language = None
    /\ native_language = None
    /\ proficiency_level = None
    /\ selected_scene = None
    /\ session_id = NULL
    /\ mistakes = <<>>
    /\ \E file \in {EmptyDb, UsedDb} :
         /\ users = file.users
         /\ sessions = file.sessions
         /\ dbMistakes = file.mistakes
         /\ now = file.now
    /\ analysis = NoAnalysis
    /\ idx = 0
    /\ correction_text = <<>>
    /\ prompt = <<>>
    /\ composed = FALSE
    /\ turnStartLen = 0
    /\ parseFailed = FALSE
    /\ feedbackCalls = 0
    /\ feedback = None
    /\ mistake_types = NoCounts
    /\ important_mistakes = <<>>
    /\ printedTop = <<>>

\* An exception nothing catches: the process ends with a traceback.
Raise(exception) ==
    /\ pc' = "crashed"
    /\ error' = exception
    /\ errorAt' = pc

Goto(next) ==
    /\ pc' = next
    /\ UNCHANGED << error, errorAt >>

----------------------------------------------------------------------------
\* run(), lines 386-408: user, preferences, session row, initial message

create_user ==
    /\ pc = "create_user"
    /\ \/ /\ users' = users + 1
          /\ user_id' = users + 1
          /\ now' = now + 1
          /\ Goto("language")
          /\ UNCHANGED << sessions, dbMistakes >>
       \/ /\ Raise("sqlite3.Error")
          /\ UNCHANGED << db, user_id >>
    /\ UNCHANGED << target_language, native_language, proficiency_level,
                    selected_scene, session_id, mistakes, turn, report >>

get_language_preference ==
    /\ pc = "language"
    /\ \E typed \in LanguageInputs, native \in NativeInputs :
         IF Selects(typed, Languages)
         THEN /\ target_language' = Languages[typed.n]
              /\ native_language' = Strip(native)
              /\ Goto("level")
         ELSE UNCHANGED << target_language, native_language, ctl >>
    /\ UNCHANGED << user_id, proficiency_level, selected_scene, session_id,
                    mistakes, db, turn, report >>

get_proficiency_level ==
    /\ pc = "level"
    /\ \E typed \in LevelInputs :
         IF Selects(typed, LEVELS)
         THEN /\ proficiency_level' = LEVELS[typed.n]
              /\ Goto("scene")
         ELSE UNCHANGED << proficiency_level, ctl >>
    /\ UNCHANGED << user_id, target_language, native_language, selected_scene,
                    session_id, mistakes, db, turn, report >>

select_scene ==
    /\ pc = "scene"
    /\ \E typed \in SceneInputs :
         IF Selects(typed, SCENES)
         THEN /\ selected_scene' = SCENES[typed.n]
              /\ Goto("start_session")
         ELSE UNCHANGED << selected_scene, ctl >>
    /\ UNCHANGED << user_id, target_language, native_language, proficiency_level,
                    session_id, mistakes, db, turn, report >>

\* INSERT INTO sessions: the new row, end_time NULL.
SessionRow(id) ==
    [id |-> id, user_id |-> user_id, target_language |-> target_language,
     native_language |-> native_language, proficiency_level |-> proficiency_level,
     scene |-> selected_scene, start_time |-> now, end_time |-> NULL]

start_session ==
    /\ pc = "start_session"
    /\ \/ /\ sessions' = Append(sessions, SessionRow(Len(sessions) + 1))
          /\ session_id' = Len(sessions) + 1
          /\ now' = now + 1
          /\ Goto("intro")
          /\ UNCHANGED << users, dbMistakes >>
       \/ /\ Raise("sqlite3.Error")
          /\ UNCHANGED << db, session_id >>
    /\ UNCHANGED << user_id, target_language, native_language, proficiency_level,
                    selected_scene, mistakes, turn, report >>

\* initial_chain.run({}): the first in-character message.
initial_message ==
    /\ pc = "intro"
    /\ \/ Goto("input")
       \/ Raise("APIError")
    /\ UNCHANGED << session, mistakes, db, turn, report >>

----------------------------------------------------------------------------
\* The turn loop, lines 411-432

\* A try block that also covers end_session and the feedback.
TryBlock_wide == {"input", "analyze", "prepare", "loop", "insert", "end_session", "feedback"}

\* The positions inside the try block of run().
TryBlock == {"input", "analyze", "prepare", "loop", "insert"}

read_input ==
    /\ pc = "input"
    /\ \E user_input \in TurnInputs :
         IF IsExitCommand(user_input)
         THEN /\ Goto("end_session")
              /\ UNCHANGED << composed, turnStartLen, parseFailed >>
         ELSE /\ Goto("analyze")
              /\ composed' = FALSE
              /\ turnStartLen' = Len(mistakes)
              /\ parseFailed' = FALSE
    /\ UNCHANGED << session, mistakes, db, analysis, idx, correction_text,
                    prompt, report >>

analyze_user_response ==
    /\ pc = "analyze"
    /\ \/ /\ Raise("APIError")
          /\ UNCHANGED << analysis, parseFailed >>
       \/ \E body \in Bodies(MaxStore - Len(mistakes)) :
            /\ analysis' = AnalysisOf(body)
            /\ parseFailed' = ~body.valid
            /\ Goto("prepare")
    /\ UNCHANGED << session, mistakes, db, idx, correction_text, prompt,
                    composed, turnStartLen, report >>

\* analysis.get("mistakes", []), line 306.
Items(a) == IF a.hasMistakes THEN a.mistakes ELSE <<>>

\* Lines 305-306: the empty correction text and the iterator of the loop.
prepare_chat_response ==
    /\ pc = "prepare"
    /\ correction_text' = <<>>
    /\ IF analysis.shape # "object"
       THEN Raise("AttributeError") /\ UNCHANGED idx
       ELSE IF analysis.hasMistakes /\ ~analysis.mistakesIsList
       THEN Raise("TypeError") /\ UNCHANGED idx
       ELSE idx' = 1 /\ Goto("loop")
    /\ UNCHANGED << session, mistakes, db, analysis, prompt, composed,
                    turnStartLen, parseFailed, report >>

\* A threshold of 3 in place of 2.
ShownInline_strict(m) == m.importance > 2

\* Line 307: mistake["importance"] >= 2.
ShownInline(m) == m.importance >= 2

\* Line 308: the bracketed annotation.
Annotation(m) == << "[Correction: ", m.incorrect, " -> ", m.correction, "]" >>

\* Lines 144-149: the record appended to self.mistakes.
MistakeRecord(mistake_text, correction, mistake_type, importance) ==
    [mistake_text |-> mistake_text, correction |-> correction,
     mistake_type |-> mistake_type, importance |-> importance]

\* Lines 153-156: the row inserted into table mistakes.
MistakeRow(id, sid, rec) ==
    [id |-> id, session_id |-> sid, mistake_text |-> rec.mistake_text,
     correction |-> rec.correction, mistake_type |-> rec.mistake_type,
     importance |-> rec.importance]

\* A store that drops a record it already holds.
AppendMistake_dedup(list, rec) ==
    IF \E i \in DOMAIN list : list[i] = rec THEN list ELSE Append(list, rec)

\* self.mistakes.append, line 144.
AppendMistake(list, rec) == Append(list, rec)

\* One iteration of the for loop, lines 306-315, up to the append of
\* record_mistake.
prepare_iteration ==
    /\ pc = "loop"
    /\ idx <= Len(Items(analysis))
    /\ LET m == Items(analysis)[idx] IN
         IF "importance" \notin m.keys
         THEN Raise("KeyError") /\ UNCHANGED << idx, correction_text, mistakes >>
         ELSE IF m.impKind # "int"
         THEN Raise("TypeError") /\ UNCHANGED << idx, correction_text, mistakes >>
         ELSE IF ~ShownInline(m)
         THEN /\ idx' = idx + 1
              /\ Goto("loop")
              /\ UNCHANGED << correction_text, mistakes >>
         ELSE IF {"incorrect", "correction"} \ m.keys # {}
         THEN Raise("KeyError") /\ UNCHANGED << idx, correction_text, mistakes >>
         ELSE /\ correction_text' = Append(correction_text, Annotation(m))
              /\ IF "type" \notin m.keys
                 THEN Raise("KeyError") /\ UNCHANGED << idx, mistakes >>
                 ELSE /\ mistakes' = AppendMistake(mistakes,
                             MistakeRecord(m.incorrect, m.correction, m.type, m.importance))
                      /\ Goto("insert")
                      /\ UNCHANGED idx
    /\ UNCHANGED << session, db, analysis, prompt, composed, turnStartLen,
                    parseFailed, report >>

\* The rest of record_mistake, lines 151-158: the committed insert.
record_mistake ==
    /\ pc = "insert"
    /\ \/ /\ dbMistakes' = Append(dbMistakes,
                 MistakeRow(Len(dbMistakes) + 1, session_id, mistakes[Len(mistakes)]))
          /\ now' = now + 1
          /\ idx' = idx + 1
          /\ Goto("loop")
          /\ UNCHANGED << users, sessions >>
       \/ /\ Raise("sqlite3.Error")
          /\ UNCHANGED << db, idx >>
    /\ UNCHANGED << session, mistakes, analysis, correction_text, prompt,
                    composed, turnStartLen, parseFailed, report >>

\* Lines 318-341 and 425-429: the reply prompt with the corrections, the
\* call, and the end of the turn.
send_reply ==
    /\ pc = "loop"
    /\ idx > Len(Items(analysis))
    /\ prompt' = correction_text
    /\ composed' = TRUE
    /\ \/ Goto("input")
       \/ Raise("APIError")
    /\ UNCHANGED << session, mistakes, db, analysis, idx, correction_text,
                    turnStartLen, parseFailed, report >>

\* Ctrl-C: caught by line 431 inside the try block, a traceback elsewhere.
KeyboardInterrupt ==
    /\ pc \notin {"done", "crashed"}
    /\ IF pc \in TryBlock
       THEN Goto("end_session")
       ELSE Raise("KeyboardInterrupt")
    /\ UNCHANGED << session, mistakes, db, turn, report >>

----------------------------------------------------------------------------
\* The end of run(), lines 435-458

\* UPDATE sessions SET end_time = CURRENT_TIMESTAMP WHERE id = ?
UpdateEndTime(rows, sid, t) ==
    [i \in DOMAIN rows |->
        IF rows[i].id = sid THEN [rows[i] EXCEPT !.end_time = t] ELSE rows[i]]

end_session ==
    /\ pc = "end_session"
    /\ \/ /\ sessions' = UpdateEndTime(sessions, session_id, now)
          /\ now' = now + 1
          /\ Goto("feedback")
          /\ UNCHANGED << users, dbMistakes >>
       \/ /\ Raise("sqlite3.Error")
          /\ UNCHANGED db
    /\ UNCHANGED << session, mistakes, turn, report >>

\* A feedback generator without the short circuit.
NoMistakes_never(list) == FALSE

\* `if not self.mistakes`, line 345.
NoMistakes(list) == list = <<>>

\* df["mistake_type"].value_counts().to_dict(), line 352.
ValueCounts(list) ==
    [t \in { list[i].mistake_type : i \in DOMAIN list } |->
        Cardinality({ i \in DOMAIN list : list[i].mistake_type = t })]

\* A filter that keeps the critical rows only.
Important_strict(list) == SelectSeq(list, LAMBDA r : r.importance > 2)

\* df[df["importance"] >= 2], lines 353 and 452: the rows kept, in row order.
Important(list) == SelectSeq(list, LAMBDA r : r.importance >= 2)

generate_session_feedback ==
    /\ pc = "feedback"
    /\ IF NoMistakes(mistakes)
       THEN /\ feedback' = GreatJob
            /\ Goto("summary")
            /\ UNCHANGED << feedbackCalls, mistake_types, important_mistakes >>
       ELSE /\ mistake_types' = ValueCounts(mistakes)
            /\ important_mistakes' = Important(mistakes)
            /\ feedbackCalls' = feedbackCalls + 1
            /\ \/ /\ feedback' = "narrative"
                  /\ Goto("summary")
               \/ /\ Raise("APIError")
                  /\ UNCHANGED feedback
    /\ UNCHANGED << session, mistakes, db, turn, printedTop >>

\* sort_values("importance", ascending=False), line 452, with the default
\* kind "quicksort": the rows in non-increasing importance; the order of
\* rows of equal importance is whatever the sort of the build leaves.
SortValues(rows) ==
    LET n == Len(rows)
        orders == { f \in [1..n -> 1..n] :
                      /\ \A i, j \in 1..n : i # j => f[i] # f[j]
                      /\ \A i, j \in 1..n :
                           i < j => rows[f[i]].importance >= rows[f[j]].importance }
    IN  { [i \in 1..n |-> rows[f[i]]] : f \in orders }

\* Lines 441-458: the mistake summary.
print_summary ==
    /\ pc = "summary"
    /\ IF mistakes # <<>>
       THEN printedTop' \in SortValues(Important(mistakes))
       ELSE UNCHANGED printedTop
    /\ Goto("done")
    /\ UNCHANGED << session, mistakes, db, turn, feedbackCalls, feedback,
                    mistake_types, important_mistakes >>

----------------------------------------------------------------------------

Next ==
    \/ create_user
    \/ get_language_preference
    \/ get_proficiency_level
    \/ select_scene
    \/ start_session
    \/ initial_message
    \/ read_input
    \/ analyze_user_response
    \/ prepare_chat_response
    \/ prepare_iteration
    \/ record_mistake
    \/ send_reply
    \/ KeyboardInterrupt
    \/ end_session
    \/ generate_session_feedback
    \/ print_summary

Spec == Init /\ [][Next]_vars

----------------------------------------------------------------------------
\* Properties

\* The rows of table mistakes of the current session, as records of the list.
SessionRows ==
    LET rows == SelectSeq(dbMistakes, LAMBDA r : r.session_id = session_id)
    IN  [i \in DOMAIN rows |->
            [mistake_text |-> rows[i].mistake_text, correction |-> rows[i].correction,
             mistake_type |-> rows[i].mistake_type, importance |-> rows[i].importance]]

\* The entries of the current analysis with importance at least 2, in order.
ShownEntries == SelectSeq(Items(analysis), LAMBDA m : m.importance >= 2)

\* end_time of the row of the current session; NULL before there is one.
EndTime == IF session_id = NULL THEN NULL ELSE sessions[session_id].end_time

\* C1 as stated: after a turn whose analysis holds k mistakes the store has
\* grown by exactly k records, importance 1 included.
C1_EveryMistakeRecorded ==
    composed => Len(mistakes) = turnStartLen + Len(Items(analysis))

\* C1 as amended: after a turn the store has grown by exactly the mistakes
\* of the analysis with importance at least 2, in order, each in the list
\* and in the table; a mistake of importance 1 is neither stored nor shown.
C1_ImportantMistakesRecorded ==
    composed =>
        /\ Len(mistakes) = turnStartLen + Len(ShownEntries)
        /\ \A i \in DOMAIN ShownEntries :
             mistakes[turnStartLen + i] =
                [mistake_text |-> ShownEntries[i].incorrect,
                 correction |-> ShownEntries[i].correction,
                 mistake_type |-> ShownEntries[i].type,
                 importance |-> ShownEntries[i].importance]
        /\ SessionRows = mistakes

C1_Witness ==
    /\ composed
    /\ turnStartLen > 0
    /\ \E i, j \in DOMAIN Items(analysis) :
         /\ Items(analysis)[i].importance = 1
         /\ Items(analysis)[j].importance = 2
    /\ Len(mistakes) > turnStartLen

\* C2: the corrections placed in the reply prompt are one annotation
\* "[Correction: incorrect -> correction]" for each mistake of the analysis
\* with importance at least 2, in the order of the analysis, and nothing for
\* a mistake of importance 1.
C2_InlineCorrections ==
    composed =>
        /\ Len(prompt) = Len(ShownEntries)
        /\ \A i \in DOMAIN ShownEntries :
             prompt[i] = << "[Correction: ", ShownEntries[i].incorrect, " -> ",
                            ShownEntries[i].correction, "]" >>
        /\ \A i \in DOMAIN Items(analysis) :
             Items(analysis)[i].importance = 1 =>
                \A k \in DOMAIN prompt : prompt[k][2] # Items(analysis)[i].incorrect

C2_Witness ==
    /\ composed
    /\ Len(Items(analysis)) = 3
    /\ Items(analysis)[1].importance = 3
    /\ Items(analysis)[2].importance = 1
    /\ Items(analysis)[3].importance = 2
    /\ Len(prompt) = 2

\* C3: no analysis payload ends the process: no error raised by a payload
\* of the wrong shape propagates out of the turn.
C3_PayloadNeverHalts ==
    ~(pc = "crashed" /\ error \in {"KeyError", "TypeError", "AttributeError"})

\* C4: when the response body does not parse, analyze_user_response does
\* not raise and returns exactly the empty Analysis Result, the store and the
\* session are unchanged by the call, and the rest of the turn records no
\* mistake and shows no correction.
C4_ParseFailureDegrades ==
    [][ parseFailed' =>
          /\ UNCHANGED << mistakes, dbMistakes >>
          /\ Len(mistakes') = turnStartLen'
          /\ composed' => prompt' = <<>>
          /\ pc = "analyze" =>
               /\ pc' = "prepare"
               /\ error' = None
               /\ analysis' = [shape |-> "object", hasMistakes |-> TRUE,
                               mistakesIsList |-> TRUE, mistakes |-> <<>>,
                               overall_quality |-> 3, strengths |-> <<>>,
                               improvement_areas |-> <<>>]
               /\ UNCHANGED << session, db >> ]_vars

C4_Witness ==
    /\ parseFailed
    /\ composed
    /\ pc = "input"
    /\ turnStartLen > 0

\* C5: an interrupt at any point while the session is Active (from the
\* session row on: initial message, input prompt, analysis, reply) leads to
\* end_session; it never ends the process with the session still open.
C5_InterruptEndsSession ==
    ~(/\ pc = "crashed"
      /\ error = "KeyboardInterrupt"
      /\ errorAt \in {"intro", "input", "analyze", "prepare", "loop", "insert"})

\* C6: every record of the store, in the list and in the table, has an
\* importance in 1..3.
C6_ImportanceInRange ==
    /\ \A i \in DOMAIN mistakes : mistakes[i].importance \in 1..3
    /\ \A i \in DOMAIN dbMistakes : dbMistakes[i].importance \in 1..3

\* C7: generate_session_feedback on an empty store returns the fixed string
\* and makes no external-model call; on a non-empty store it makes exactly
\* one; it leaves the store and the session fields unchanged.
C7_FeedbackShortCircuit ==
    [][ (pc = "feedback" /\ error' # "KeyboardInterrupt") =>
          /\ mistakes = <<>> =>
               /\ feedbackCalls' = feedbackCalls
               /\ feedback' = "Great job! You didn't make any significant mistakes in this conversation."
               /\ error' = None
          /\ mistakes # <<>> => feedbackCalls' = feedbackCalls + 1
          /\ feedbackCalls' <= 1
          /\ UNCHANGED << mistakes, dbMistakes, sessions, users, session >> ]_vars

C7_Witness ==
    /\ pc = "summary"
    /\ mistakes = <<>>
    /\ feedbackCalls = 0
    /\ feedback = GreatJob
    /\ analysis.shape = "object"

\* The rows in descending importance, rows of equal importance in row order.
StableDescending(rows) ==
    LET n == Len(rows)
        f == CHOOSE g \in [1..n -> 1..n] :
               \A i, j \in 1..n :
                  i < j => \/ rows[g[i]].importance > rows[g[j]].importance
                           \/ /\ rows[g[i]].importance = rows[g[j]].importance
                              /\ g[i] < g[j]
    IN  [i \in 1..n |-> rows[f[i]]]

\* The records of the store with importance at least 2, in arrival order.
StoreImportant == SelectSeq(mistakes, LAMBDA r : r.importance >= 2)

\* C8 as stated: the aggregate forwarded to the feedback call, and the list
\* printed as top mistakes, are the records with importance at least 2 in
\* descending importance, ties in arrival order.
C8_ForwardedSortedStable ==
    /\ feedbackCalls > 0 => important_mistakes = StableDescending(StoreImportant)
    /\ (pc = "done" /\ mistakes # <<>>) => printedTop = StableDescending(StoreImportant)

\* C8 as amended: the aggregate forwarded to the feedback call is the
\* records with importance at least 2 in arrival order; the printed list is
\* the same records in non-increasing importance.
C8_ForwardedInArrivalOrder ==
    /\ feedbackCalls > 0 => important_mistakes = StoreImportant
    /\ (pc = "done" /\ mistakes # <<>>) =>
          /\ Len(printedTop) = Len(StoreImportant)
          /\ \A r \in { StoreImportant[i] : i \in DOMAIN StoreImportant } :
               Cardinality({ i \in DOMAIN printedTop : printedTop[i] = r })
                 = Cardinality({ i \in DOMAIN StoreImportant : StoreImportant[i] = r })
          /\ \A i, j \in DOMAIN printedTop :
               i < j => printedTop[i].importance >= printedTop[j].importance

C8_Witness ==
    /\ pc = "done"
    /\ Len(mistakes) = 3
    /\ mistakes[1].importance = 2
    /\ mistakes[2].importance = 3
    /\ mistakes[3].importance = 2
    /\ mistakes[1] # mistakes[3]
    /\ important_mistakes = mistakes
    /\ printedTop = << mistakes[2], mistakes[3], mistakes[1] >>

\* C9: whenever no record_mistake call is in progress, also after a storage
\* failure in an insert, the rows of table mistakes of the current session
\* are the records of the in-memory list, in the same order; and
\* record_mistake runs only while a session is open.
C9_TableMatchesList ==
    /\ pc # "insert" => SessionRows = mistakes
    /\ pc = "insert" => (session_id # NULL /\ EndTime = NULL)

\* C10: end_time is set at most once, by end_session, only after the session
\* row exists with its start_time and language, level and scene are chosen;
\* once it is set no step records a mistake, starts a session or sets it
\* again.
C10_EndTimeSetOnce ==
    [][ /\ EndTime # NULL =>
             UNCHANGED << mistakes, dbMistakes, session_id, sessions >>
        /\ (EndTime = NULL /\ EndTime' # NULL) =>
             /\ pc = "end_session"
             /\ session_id # NULL
             /\ session_id' = session_id
             /\ sessions[session_id].start_time # NULL
             /\ sessions[session_id].start_time < EndTime'
             /\ None \notin { target_language, proficiency_level, selected_scene }
             /\ Len(sessions') = Len(sessions) ]_vars

C10_Witness ==
    /\ pc = "done"
    /\ EndTime # NULL
    /\ mistakes # <<>>
    /\ feedbackCalls = 1

====
